---- MODULE Spec2Model ----
(***************************************************************************)
(* Verification model of the example gallery pages of the repository.      *)
(*                                                                         *)
(* Spec          : the script shown on the plot_compare_reduction page     *)
(*                 (src/unnamed/part_001): a grid search over a pipeline,  *)
(*                 first without and then with a joblib Memory cache,      *)
(*                 whose captured [Memory] log is part of the page.        *)
(* SpecRidge     : the ridge-path page (src/unnamed/part_000): the         *)
(*                 docstring of plot_ridge_path.py rendered as the         *)
(*                 narrative, the rest of the script as a listing.         *)
(* SpecLasso     : the section "The two Lasso implementations on Sparse    *)
(*                 data" of the script shown on the Lasso page             *)
(*                 (plot_lasso_dense_vs_sparse_data.rst.txt).              *)
(* SpecJobs      : the cached grid.fit of part_001 as its n_jobs workers   *)
(*                 run it: every fit begins with a "[Memory] Calling" or   *)
(*                 "Loading" line and ends with the line that reports its  *)
(*                 time.                                                   *)
(* SpecPages     : the three pages (Lasso, part_001, part_000) read line   *)
(*                 by line: label, printed durations, total running time,  *)
(*                 download links and signature.                           *)
(* SpecNotebooks : a notebook written from a script, block by block, and   *)
(*                 compared with the three notebooks of src.               *)
(* SpecPoints    : the statements of the script in the notebook of         *)
(*                 part_002 that create the data set X, y.                 *)
(***************************************************************************)
EXTENDS Integers, Sequences, FiniteSets, TLC

VARIABLES
    pc,          \* position of the script of part_001
    good,        \* the data set, seen through the scores it gives
    cachedir,    \* the directory of mkdtemp: "none", "exists", "removed"
    memory,      \* what joblib has stored under cachedir: key -> value
    log,         \* the captured [Memory] output, one entry per call or load
    ci,          \* GridSearchCV.fit: index of the candidate being evaluated
    fi,          \* GridSearchCV.fit: index of the fold being evaluated
    acc,         \* GridSearchCV.fit: sum of the fold scores of the candidate
    grid,        \* the object bound to the name grid
    first_grid,  \* the grid of line 71, kept when line 133 rebinds the name
    mean_scores, \* the array of lines 75-79
    bars,        \* the bars drawn by lines 85-86
    script,      \* plot_ridge_path.py, line by line
    phase,       \* what the build of the ridge-path page is doing
    row,         \* the line of the script the build is at
    narrative,   \* the script lines rendered as the narrative of the page
    listing,     \* the script lines shown by the literalinclude
    at,          \* position of the script of the Lasso page
    arrays,      \* the ndarrays in memory, by reference
    X,           \* the Lasso script's X: a reference into arrays
    y,           \* the Lasso script's y
    Xs,          \* the Lasso script's Xs: an ndarray, then a sparse matrix
    density,     \* the fraction printed as "Matrix density", times 100
    sparse_lasso,\* what sparse_lasso was fitted on
    dense_lasso, \* what dense_lasso was fitted on
    dispatched,  \* cached grid.fit: the fits handed to a worker so far
    busy,        \* cached grid.fit: what each process is doing
    stored,      \* cached grid.fit: the keys joblib has stored
    out,         \* cached grid.fit: the lines written to the output
    refitted,    \* cached grid.fit: the refit has been started
    page,        \* the page being read
    lineno,      \* the number of lines of the page read so far
    label,       \* the label of the page
    downloads,   \* the targets of the download links read so far
    durations,   \* the printed "done in" durations read so far
    totals,      \* the renderings of the total running time read so far
    last,        \* what the last line that is not blank was
    notebook,    \* the notebook of src the script is taken from, or "none"
    blocks,      \* the script the notebook is written from, block by block
    cells,       \* the cells of the notebook written so far
    closed,      \* the notebook is complete
    where,       \* position of the script of the unbalanced-classes notebook
    first,       \* the rows drawn by rng.randn(n_samples_1, 2) so far
    second,      \* the rows drawn by rng.randn(n_samples_2, 2) so far
    points,      \* the X of that script: one entry per row
    labels       \* the y of that script

grid_vars == <<pc, good, cachedir, memory, log, ci, fi, acc, grid,
               first_grid, mean_scores, bars>>

ridge_vars == <<script, phase, row, narrative, listing>>

lasso_vars == <<at, arrays, X, y, Xs, density, sparse_lasso, dense_lasso>>

jobs_vars == <<dispatched, busy, stored, out, refitted>>

pages_vars == <<page, lineno, label, downloads, durations, totals, last>>

notebook_vars == <<notebook, blocks, cells, closed>>

points_vars == <<where, first, second, points, labels>>

vars == <<grid_vars, ridge_vars, lasso_vars, jobs_vars, pages_vars,
          notebook_vars, points_vars>>

\* What the statements of one script leave alone: the state of the others.
beside_grid == <<ridge_vars, lasso_vars, jobs_vars, pages_vars,
                 notebook_vars, points_vars>>
beside_ridge == <<grid_vars, lasso_vars, jobs_vars, pages_vars,
                  notebook_vars, points_vars>>
beside_lasso == <<grid_vars, ridge_vars, jobs_vars, pages_vars,
                  notebook_vars, points_vars>>
beside_jobs == <<grid_vars, ridge_vars, lasso_vars, pages_vars,
                 notebook_vars, points_vars>>
beside_pages == <<grid_vars, ridge_vars, lasso_vars, jobs_vars,
                  notebook_vars, points_vars>>
beside_notebook == <<grid_vars, ridge_vars, lasso_vars, jobs_vars,
                     pages_vars, points_vars>>
beside_points == <<grid_vars, ridge_vars, lasso_vars, jobs_vars, pages_vars,
                   notebook_vars>>

----------------------------------------------------------------------------
(* Bounds *)

\* The data set makes at most MaxGood candidates score 1; the rest score 0.
MaxGood == 1

\* plot_ridge_path.py has at most MaxCodeLines lines after its docstring.
MaxCodeLines == 6

\* The X of the Lasso script has at most MaxCells entries.
MaxCells == 4

\* A script has at most MaxBlocks blocks after its docstring.
MaxBlocks == 3

----------------------------------------------------------------------------
(* The parameter names, as the characters Python compares when it sorts.   *)

\* "classify__C"
classify__C == <<99, 108, 97, 115, 115, 105, 102, 121, 95, 95, 67>>
\* "reduce_dim"
reduce_dim == <<114, 101, 100, 117, 99, 101, 95, 100, 105, 109>>
\* "reduce_dim__n_components"
reduce_dim__n_components ==
    <<114, 101, 100, 117, 99, 101, 95, 100, 105, 109, 95, 95,
      110, 95, 99, 111, 109, 112, 111, 110, 101, 110, 116, 115>>
\* "reduce_dim__k"
reduce_dim__k == <<114, 101, 100, 117, 99, 101, 95, 100, 105, 109, 95, 95, 107>>

\* The estimators the script constructs.
PCA_default == "PCA()"
PCA_power7 == "PCA(iterated_power=7)"
NMF_default == "NMF()"
SelectKBest_chi2 == "SelectKBest(chi2)"

\* n_components (or k) of an estimator constructed without it: None.
None == 0

N_FEATURES_OPTIONS == <<2, 4, 8>>
C_OPTIONS == <<1, 10, 100, 1000>>

\* Each dict is the sequence of its items, in the order the script writes them.
param_grid ==
    << << <<reduce_dim, <<PCA_power7, NMF_default>> >>,
          <<reduce_dim__n_components, N_FEATURES_OPTIONS>>,
          <<classify__C, C_OPTIONS>> >>,
       << <<reduce_dim, <<SelectKBest_chi2>> >>,
          <<reduce_dim__k, N_FEATURES_OPTIONS>>,
          <<classify__C, C_OPTIONS>> >> >>

\* A list of labels that misses the reducer of the second sub-grid.
reducer_labels_Short == <<"PCA", "NMF">>

reducer_labels == <<"PCA", "NMF", "KBest(chi2)">>

\* GridSearchCV(..., cv=3, ...)
cv == 3

\* A refit on the training part of the first fold.
WholeData_FirstFold == 0 + 1

\* digits.data, digits.target as a whole; the training part of fold f is f.
WholeData == 0

\* Pipeline([('reduce_dim', PCA()), ('classify', LinearSVC())])
Pipeline == [reduce_dim |-> [name |-> PCA_default, size |-> None], C |-> 1]

----------------------------------------------------------------------------
(* ParameterGrid: the order in which GridSearchCV visits param_grid.       *)

\* Python's order of two strings: the first differing character decides,
\* and a proper prefix comes first.
RECURSIVE LexLess(_, _)
LexLess(a, b) ==
    IF b = <<>> THEN FALSE
    ELSE IF a = <<>> THEN TRUE
    ELSE IF Head(a) # Head(b) THEN Head(a) < Head(b)
    ELSE LexLess(Tail(a), Tail(b))

\* The items in the order the dict was written, unsorted.
sorted_InsertionOrder(items) == items

\* sorted(p.items())
sorted(items) == SortSeq(items, LAMBDA a, b : LexLess(a[1], b[1]))

\* A product in which the first list varies fastest.
RECURSIVE product_FirstFastest(_)
product_FirstFastest(lists) ==
    IF lists = <<>> THEN << <<>> >>
    ELSE LET hd == Head(lists)
             rest == product_FirstFastest(Tail(lists))
         IN [i \in 1..(Len(hd) * Len(rest)) |->
                <<hd[((i - 1) % Len(hd)) + 1]>>
                    \o rest[((i - 1) \div Len(hd)) + 1]]

\* itertools.product(*lists): the last list varies fastest.
RECURSIVE product(_)
product(lists) ==
    IF lists = <<>> THEN << <<>> >>
    ELSE LET hd == Head(lists)
             rest == product(Tail(lists))
         IN [i \in 1..(Len(hd) * Len(rest)) |->
                <<hd[((i - 1) \div Len(rest)) + 1]>>
                    \o rest[((i - 1) % Len(rest)) + 1]]

\* The candidates of one dict: dict(zip(keys, v)) for v in product(*values).
SubGrid(p) ==
    LET items == sorted(p)
        values == [i \in 1..Len(items) |-> items[i][2]]
        prod == product(values)
    IN [j \in 1..Len(prod) |->
           [i \in 1..Len(items) |-> <<items[i][1], prod[j][i]>>]]

\* The candidates of the list of dicts, dict after dict.
RECURSIVE ParameterGrid(_)
ParameterGrid(g) ==
    IF g = <<>> THEN <<>>
    ELSE SubGrid(Head(g)) \o ParameterGrid(Tail(g))

candidates == ParameterGrid(param_grid)

HasParam(cand, key) == \E i \in 1..Len(cand) : cand[i][1] = key
Param(cand, key) == cand[CHOOSE i \in 1..Len(cand) : cand[i][1] = key][2]

\* A set_params that sets the nested parameters and leaves the step of the
\* pipeline as it was constructed.
set_params_KeepStep(pipe, cand) ==
    [reduce_dim |->
        [name |-> pipe.reduce_dim.name,
         size |-> IF HasParam(cand, reduce_dim__n_components)
                  THEN Param(cand, reduce_dim__n_components)
                  ELSE IF HasParam(cand, reduce_dim__k)
                  THEN Param(cand, reduce_dim__k)
                  ELSE pipe.reduce_dim.size],
     C |-> IF HasParam(cand, classify__C)
           THEN Param(cand, classify__C) ELSE pipe.C]

\* clone(base_estimator).set_params(**parameters): a step named in the
\* parameters is replaced first, then the nested parameters are set.
set_params(pipe, cand) ==
    LET step == IF HasParam(cand, reduce_dim)
                THEN [name |-> Param(cand, reduce_dim), size |-> None]
                ELSE pipe.reduce_dim
        size == IF HasParam(cand, reduce_dim__n_components)
                THEN Param(cand, reduce_dim__n_components)
                ELSE IF HasParam(cand, reduce_dim__k)
                THEN Param(cand, reduce_dim__k)
                ELSE step.size
    IN [reduce_dim |-> [name |-> step.name, size |-> size],
        C |-> IF HasParam(cand, classify__C)
              THEN Param(cand, classify__C) ELSE pipe.C]

----------------------------------------------------------------------------
(* The memoized function and joblib's Memory.                              *)

\* What executing _fit_transform_one(transformer, None, X, y) returns: the
\* transformer fitted on that data (and the data transformed by it).
fit_transform_one(est, data) == [transformer |-> est, data |-> data]

\* A hash that leaves the data out: every fold shares one entry.
ArgsHash_NoData(est, data) == <<est.name, est.size>>

\* A hash that leaves the transformer's parameters out.
ArgsHash_NoParams(est, data) == <<est.name, data>>

\* The hash of the argument tuple, which names the cache entry.
ArgsHash(est, data) == <<est.name, est.size, data>>

\* A Memory that computes and never stores.
MemoryCall_NoStore(mem, est, data) ==
    [event |-> "call", value |-> fit_transform_one(est, data), memory |-> mem]

\* A call of the memoized function: a stored result is loaded, anything
\* else is computed and stored.
MemoryCall(mem, est, data) ==
    LET k == ArgsHash(est, data)
    IN IF k \in DOMAIN mem
       THEN [event |-> "load", value |-> mem[k], memory |-> mem]
       ELSE LET v == fit_transform_one(est, data)
            IN [event |-> "call", value |-> v, memory |-> mem @@ (k :> v)]

\* Pipeline.fit of the transformer step: through memory when the pipeline
\* was given one, directly otherwise.
FitStep(cached, mem, est, data) ==
    IF cached THEN MemoryCall(mem, est, data)
    ELSE [event |-> "none", value |-> fit_transform_one(est, data),
          memory |-> mem]

\* One entry of the [Memory] output: the call with its arguments or the load
\* with the hash of the entry it reads, the value handed to the pipeline,
\* and the value of C the search was evaluating.
LogEntry(r, est, data, C, refit) ==
    [event |-> r.event, est |-> est, data |-> data,
     key |-> ArgsHash(est, data), value |-> r.value, C |-> C,
     refit |-> refit]

\* The accuracy of LinearSVC(C) behind a fitted transformer, on this data.
Score(fitted, C) ==
    IF <<C, fitted.transformer.name, fitted.transformer.size>> \in good
    THEN 1 ELSE 0

\* The candidates the data set may favour.
Scored ==
    {<<C_OPTIONS[c], r, N_FEATURES_OPTIONS[n]>> :
        c \in 1..Len(C_OPTIONS),
        r \in {PCA_power7, NMF_default, SelectKBest_chi2},
        n \in 1..Len(N_FEATURES_OPTIONS)}

RECURSIVE SubsetsUpTo(_, _)
SubsetsUpTo(S, k) ==
    IF k = 0 THEN {{}}
    ELSE LET P == SubsetsUpTo(S, k - 1)
         IN P \cup {p \cup {x} : p \in P, x \in S}

----------------------------------------------------------------------------
(* GridSearchCV                                                            *)

NewGrid == [cv_results_ |-> <<>>, best_params_ |-> <<>>, fitted |-> FALSE]

\* One (candidate, fold) of the cross-validation loop of GridSearchCV.fit.
FitFold(cached) ==
    /\ ci <= Len(candidates)
    /\ LET cand == candidates[ci]
           pipe == set_params(Pipeline, cand)
           r == FitStep(cached, memory, pipe.reduce_dim, fi)
           s == Score(r.value, pipe.C)
       IN /\ memory' = r.memory
          /\ log' = IF cached
                    THEN Append(log, LogEntry(r, pipe.reduce_dim, fi,
                                              pipe.C, FALSE))
                    ELSE log
          /\ IF fi < cv
             THEN /\ fi' = fi + 1
                  /\ acc' = acc + s
                  /\ UNCHANGED <<ci, grid>>
             ELSE /\ fi' = 1
                  /\ acc' = 0
                  /\ ci' = ci + 1
                  /\ grid' = [grid EXCEPT !.cv_results_ =
                                 Append(@, [params |-> cand,
                                            mean_test_score |->
                                                (acc + s) \div cv])]

\* results["rank_test_score"].argmin(): the first of the best means.
best_index(results) ==
    CHOOSE i \in 1..Len(results) :
        /\ \A j \in 1..Len(results) :
               results[j].mean_test_score <= results[i].mean_test_score
        /\ \A j \in 1..(i - 1) :
               results[j].mean_test_score < results[i].mean_test_score

\* The end of GridSearchCV.fit: the best candidate is fitted on all the data.
Refit(cached) ==
    /\ ci > Len(candidates)
    /\ LET cand == grid.cv_results_[best_index(grid.cv_results_)].params
           pipe == set_params(Pipeline, cand)
           r == FitStep(cached, memory, pipe.reduce_dim, WholeData)
       IN /\ memory' = r.memory
          /\ log' = IF cached
                    THEN Append(log, LogEntry(r, pipe.reduce_dim,
                                              WholeData, pipe.C, TRUE))
                    ELSE log
          /\ grid' = [grid EXCEPT !.best_params_ = cand, !.fitted = TRUE]
    /\ UNCHANGED <<ci, fi, acc>>

----------------------------------------------------------------------------
(* The scripts that are not running.                                       *)

IdleGrid ==
    /\ pc = "idle"
    /\ good = {}
    /\ cachedir = "none"
    /\ memory = <<>>
    /\ log = <<>>
    /\ ci = 1
    /\ fi = 1
    /\ acc = 0
    /\ grid = NewGrid
    /\ first_grid = NewGrid
    /\ mean_scores = <<>>
    /\ bars = <<>>

IdleRidge ==
    /\ script = <<>>
    /\ phase = "idle"
    /\ row = 0
    /\ narrative = <<>>
    /\ listing = <<>>

IdleLasso ==
    /\ at = "idle"
    /\ arrays = <<>>
    /\ X = 0
    /\ y = <<>>
    /\ Xs = [format |-> "none"]
    /\ density = [num |-> 0, den |-> 1]
    /\ sparse_lasso = [fitted |-> FALSE]
    /\ dense_lasso = [fitted |-> FALSE]

IdleJobs ==
    /\ dispatched = 0
    /\ busy = <<>>
    /\ stored = {}
    /\ out = <<>>
    /\ refitted = FALSE

IdlePages ==
    /\ page = "none"
    /\ lineno = 0
    /\ label = <<>>
    /\ downloads = <<>>
    /\ durations = <<>>
    /\ totals = <<>>
    /\ last = "none"

IdleNotebook ==
    /\ notebook = "idle"
    /\ blocks = <<>>
    /\ cells = <<>>
    /\ closed = FALSE

IdlePoints ==
    /\ where = "idle"
    /\ first = <<>>
    /\ second = <<>>
    /\ points = <<>>
    /\ labels = <<>>

----------------------------------------------------------------------------
(* The script of the page, statement by statement.                         *)

Init ==
    /\ pc = "grid.fit"
    /\ good \in SubsetsUpTo(Scored, MaxGood)
    /\ cachedir = "none"
    /\ memory = <<>>
    /\ log = <<>>
    /\ ci = 1
    /\ fi = 1
    /\ acc = 0
    /\ grid = NewGrid
    /\ first_grid = NewGrid
    /\ mean_scores = <<>>
    /\ bars = <<>>
    /\ IdleRidge
    /\ IdleLasso
    /\ IdleJobs
    /\ IdlePages
    /\ IdleNotebook
    /\ IdlePoints

\* grid.fit(digits.data, digits.target) of the first section, in progress.
GridFit ==
    /\ pc = "grid.fit"
    /\ FitFold(FALSE)
    /\ UNCHANGED <<pc, good, cachedir, first_grid, mean_scores, bars>>
    /\ UNCHANGED beside_grid

GridRefit ==
    /\ pc = "grid.fit"
    /\ Refit(FALSE)
    /\ pc' = "plot"
    /\ UNCHANGED <<good, cachedir, first_grid, mean_scores, bars>>
    /\ UNCHANGED beside_grid

\* np.array(...).reshape(d0, -1, d2): the middle dimension is inferred, and
\* the entry [a][b][c] is the entry (a * d1 + b) * d2 + c of the flat array,
\* counting from 0.
CanReshape(flat, d0, d2) == d0 * d2 > 0 /\ Len(flat) % (d0 * d2) = 0

reshape(flat, d0, d2) ==
    LET d1 == Len(flat) \div (d0 * d2)
    IN [a \in 1..d0 |-> [b \in 1..d1 |-> [c \in 1..d2 |->
           flat[((a - 1) * d1 + (b - 1)) * d2 + c]]]]

Max(S) == CHOOSE x \in S : \A z \in S : z <= x
Min(S) == CHOOSE x \in S : \A z \in S : x <= z

\* arr.max(axis=0)
max_axis0(arr) ==
    [b \in 1..Len(arr[1]) |-> [c \in 1..Len(arr[1][1]) |->
        Max({arr[a][b][c] : a \in 1..Len(arr)})]]

zip(a, b) == [i \in 1..Min({Len(a), Len(b)}) |-> <<a[i], b[i]>>]

\* Lines 75-93: mean_scores is reshaped and reduced, and a group of bars is
\* drawn for every (label, row) pair.
Plot ==
    /\ pc = "plot"
    /\ LET flat == [i \in 1..Len(grid.cv_results_) |->
                       grid.cv_results_[i].mean_test_score]
       IN IF CanReshape(flat, Len(C_OPTIONS), Len(N_FEATURES_OPTIONS))
          THEN LET m == max_axis0(reshape(flat, Len(C_OPTIONS),
                                          Len(N_FEATURES_OPTIONS)))
                   z == zip(reducer_labels, m)
               IN /\ mean_scores' = m
                  /\ bars' = [i \in 1..Len(z) |->
                                 [label |-> z[i][1], heights |-> z[i][2]]]
                  /\ pc' = "mkdtemp"
          ELSE /\ pc' = "raised"
               /\ UNCHANGED <<mean_scores, bars>>
    /\ UNCHANGED <<good, cachedir, memory, log, ci, fi, acc, grid, first_grid>>
    /\ UNCHANGED beside_grid

\* A cache directory that is named but not created.
Mkdtemp_NotCreated ==
    /\ pc = "mkdtemp"
    /\ pc' = "Memory"
    /\ UNCHANGED <<good, cachedir, memory, log, ci, fi, acc, grid, first_grid,
                   mean_scores, bars>>
    /\ UNCHANGED beside_grid

\* cachedir = mkdtemp()
Mkdtemp ==
    /\ pc = "mkdtemp"
    /\ cachedir' = "exists"
    /\ pc' = "Memory"
    /\ UNCHANGED <<good, memory, log, ci, fi, acc, grid, first_grid,
                   mean_scores, bars>>
    /\ UNCHANGED beside_grid

\* Lines 127-134: the Memory object, the cached pipeline and the second
\* GridSearchCV, which rebinds the name grid.
MakeCachedGrid ==
    /\ pc = "Memory"
    /\ first_grid' = grid
    /\ grid' = NewGrid
    /\ ci' = 1
    /\ fi' = 1
    /\ acc' = 0
    /\ pc' = "cached grid.fit"
    /\ UNCHANGED <<good, cachedir, memory, log, mean_scores, bars>>
    /\ UNCHANGED beside_grid

\* grid.fit(digits.data, digits.target) of the caching section, in progress.
CachedGridFit ==
    /\ pc = "cached grid.fit"
    /\ FitFold(TRUE)
    /\ UNCHANGED <<pc, good, cachedir, first_grid, mean_scores, bars>>
    /\ UNCHANGED beside_grid

CachedGridRefit ==
    /\ pc = "cached grid.fit"
    /\ Refit(TRUE)
    /\ pc' = "rmtree"
    /\ UNCHANGED <<good, cachedir, first_grid, mean_scores, bars>>
    /\ UNCHANGED beside_grid

\* rmtree(cachedir)
Rmtree ==
    /\ pc = "rmtree"
    /\ cachedir' = "removed"
    /\ memory' = <<>>
    /\ pc' = "done"
    /\ UNCHANGED <<good, log, ci, fi, acc, grid, first_grid, mean_scores,
                   bars>>
    /\ UNCHANGED beside_grid

\* A fit raises inside grid.fit: no statement of the script catches it, and
\* the script ends there with a traceback.
FitRaises ==
    /\ pc \in {"grid.fit", "cached grid.fit"}
    /\ pc' = "raised"
    /\ UNCHANGED <<good, cachedir, memory, log, ci, fi, acc, grid,
                   first_grid, mean_scores, bars>>
    /\ UNCHANGED beside_grid

Next ==
    \/ GridFit
    \/ GridRefit
    \/ Plot
    \/ Mkdtemp
    \/ MakeCachedGrid
    \/ CachedGridFit
    \/ CachedGridRefit
    \/ Rmtree
    \/ FitRaises

Spec == Init /\ [][Next]_vars

----------------------------------------------------------------------------
(* The ridge-path page (SpecRidge).                                        *)

\* The lines of the docstring the page renders as its narrative: from the
\* overline of the title to "exhibit big oscillations."
DocstringLines == 16

\* A listing that starts one line late.
ListingStart_Late == 19 + 1

\* .. literalinclude:: plot_ridge_path.py
\*     :lines: 19-
ListingStart == 19

\* plot_ridge_path.py with codeLines lines of code: the line that opens the
\* docstring, the lines of the docstring, the line that closes it, the code.
RidgeScript(codeLines) ==
    <<"quotes">> \o [i \in 1..DocstringLines |-> "docstring"]
                 \o <<"quotes">> \o [i \in 1..codeLines |-> "code"]

InitRidge ==
    /\ IdleGrid
    /\ IdleLasso
    /\ IdleJobs
    /\ IdlePages
    /\ IdleNotebook
    /\ IdlePoints
    /\ \E codeLines \in 0..MaxCodeLines : script = RidgeScript(codeLines)
    /\ phase = "open"
    /\ row = 1
    /\ narrative = <<>>
    /\ listing = <<>>

\* The string that starts the script is found: its text starts on the line
\* after the opening quotes.
OpenDocstring ==
    /\ phase = "open"
    /\ script[row] = "quotes"
    /\ row' = row + 1
    /\ phase' = "docstring"
    /\ UNCHANGED <<script, narrative, listing>>
    /\ UNCHANGED beside_ridge

\* A line of the docstring becomes a line of the narrative; the closing
\* quotes end the docstring.
ReadDocstring ==
    /\ phase = "docstring"
    /\ IF script[row] = "quotes"
       THEN /\ phase' = "listing"
            /\ row' = 1
            /\ UNCHANGED narrative
       ELSE /\ narrative' = Append(narrative, row)
            /\ row' = row + 1
            /\ UNCHANGED phase
    /\ UNCHANGED <<script, listing>>
    /\ UNCHANGED beside_ridge

\* literalinclude goes through the file and shows the lines from
\* ListingStart on.
IncludeLine ==
    /\ phase = "listing"
    /\ row <= Len(script)
    /\ listing' = IF row >= ListingStart THEN Append(listing, row)
                  ELSE listing
    /\ row' = row + 1
    /\ UNCHANGED <<script, phase, narrative>>
    /\ UNCHANGED beside_ridge

\* The end of the file: the page is complete.
FinishPage ==
    /\ phase = "listing"
    /\ row > Len(script)
    /\ phase' = "done"
    /\ UNCHANGED <<script, row, narrative, listing>>
    /\ UNCHANGED beside_ridge

NextRidge ==
    \/ OpenDocstring
    \/ ReadDocstring
    \/ IncludeLine
    \/ FinishPage

SpecRidge == InitRidge /\ [][NextRidge]_vars

----------------------------------------------------------------------------
(* The sparse section of the script of the Lasso page (SpecLasso).  Values *)
(* of X are counted in halves, so that 2.5 is the integer 5.               *)

\* Xs[Xs < 2.5] = 0.0: the 2.5, in halves.
Threshold == 5

\* Values make_regression may put into X, in halves: -3.0, 2.0, 2.5, 3.0.
Entries == {-6, 4, 5, 6}

\* Values make_regression may put into y.
Targets == {-1, 1}

\* The shapes (n_samples, n_features) of X that the model runs.
Shapes == {s \in (1..MaxCells) \X (1..MaxCells) : s[1] * s[2] <= MaxCells}

\* A.shape and A.size of an ndarray.
ndarray_shape(A) == <<Len(A), Len(A[1])>>
ndarray_size(A) == Len(A) * Len(A[1])

\* The positions of a matrix in row-major (C) order, as numpy visits them.
RowMajor(sh) ==
    [k \in 1..(sh[1] * sh[2]) |->
        <<((k - 1) \div sh[2]) + 1, ((k - 1) % sh[2]) + 1>>]

\* The positions of a matrix column by column, as CSC stores them.
ColMajor(sh) ==
    [k \in 1..(sh[1] * sh[2]) |->
        <<((k - 1) % sh[1]) + 1, ((k - 1) \div sh[1]) + 1>>]

\* An assignment that makes Xs another name of the array of X.
copy_View(arrs, ref) == [arrays |-> arrs, ref |-> ref]

\* X.copy(): a new array with the entries of the old one.
copy(arrs, ref) ==
    [arrays |-> Append(arrs, arrs[ref]), ref |-> Len(arrs) + 1]

\* A[A < t] = 0.0, in place.
setitem_less(A, t) ==
    [i \in 1..Len(A) |->
        [j \in 1..Len(A[i]) |-> IF A[i][j] < t THEN 0 ELSE A[i][j]]]

\* sparse.coo_matrix(A) of an ndarray: the non-zero entries with their row
\* and column (0-based), in row-major order.
coo_matrix(A) ==
    LET nz == SelectSeq(RowMajor(ndarray_shape(A)), LAMBDA p : A[p[1]][p[2]] # 0)
    IN [format |-> "coo",
        shape |-> ndarray_shape(A),
        row |-> [k \in 1..Len(nz) |-> nz[k][1] - 1],
        col |-> [k \in 1..Len(nz) |-> nz[k][2] - 1],
        data |-> [k \in 1..Len(nz) |-> A[nz[k][1]][nz[k][2]]]]

\* M.tocsc() of a COO matrix without duplicates: the entries column by
\* column, indptr[j] .. indptr[j + 1] bounding those of column j.
tocsc(M) ==
    LET At(p) == {k \in 1..Len(M.data) :
                     M.row[k] = p[1] - 1 /\ M.col[k] = p[2] - 1}
        kept == SelectSeq(ColMajor(M.shape), LAMBDA p : At(p) # {})
    IN [format |-> "csc",
        shape |-> M.shape,
        indptr |-> [j \in 1..(M.shape[2] + 1) |->
                       Cardinality({k \in 1..Len(M.data) : M.col[k] < j - 1})],
        indices |-> [k \in 1..Len(kept) |-> kept[k][1] - 1],
        data |-> [k \in 1..Len(kept) |->
                     M.data[CHOOSE c \in At(kept[k]) : TRUE]]]

\* M.toarray() of a CSC matrix.
toarray(M) ==
    [i \in 1..M.shape[1] |->
        [j \in 1..M.shape[2] |->
            LET ks == {k \in (M.indptr[j] + 1)..M.indptr[j + 1] :
                          M.indices[k] = i - 1}
            IN IF ks = {} THEN 0 ELSE M.data[CHOOSE k \in ks : TRUE]]]

\* M.nnz of a sparse matrix.
nnz(M) == Len(M.data)

\* X, y = make_regression(...): line 54 has run, line 76 is next.
InitLasso ==
    /\ IdleGrid
    /\ IdleRidge
    /\ IdleJobs
    /\ IdlePages
    /\ IdleNotebook
    /\ IdlePoints
    /\ at = "copy"
    /\ \E sh \in Shapes :
           /\ \E A \in [1..sh[1] -> [1..sh[2] -> Entries]] : arrays = <<A>>
           /\ \E t \in Targets : y = [i \in 1..sh[1] |-> t * i]
    /\ X = 1
    /\ Xs = [format |-> "none"]
    /\ density = [num |-> 0, den |-> 1]
    /\ sparse_lasso = [fitted |-> FALSE]
    /\ dense_lasso = [fitted |-> FALSE]

\* Xs = X.copy()
Copy ==
    /\ at = "copy"
    /\ LET r == copy(arrays, X)
       IN /\ arrays' = r.arrays
          /\ Xs' = [format |-> "ndarray", ref |-> r.ref]
    /\ at' = "setitem"
    /\ UNCHANGED <<X, y, density, sparse_lasso, dense_lasso>>
    /\ UNCHANGED beside_lasso

\* Xs[Xs < 2.5] = 0.0
SetItem ==
    /\ at = "setitem"
    /\ arrays' = [arrays EXCEPT ![Xs.ref] = setitem_less(@, Threshold)]
    /\ at' = "coo_matrix"
    /\ UNCHANGED <<X, y, Xs, density, sparse_lasso, dense_lasso>>
    /\ UNCHANGED beside_lasso

\* Xs = sparse.coo_matrix(Xs)
CooMatrix ==
    /\ at = "coo_matrix"
    /\ Xs' = coo_matrix(arrays[Xs.ref])
    /\ at' = "tocsc"
    /\ UNCHANGED <<arrays, X, y, density, sparse_lasso, dense_lasso>>
    /\ UNCHANGED beside_lasso

\* Xs = Xs.tocsc()
ToCsc ==
    /\ at = "tocsc"
    /\ Xs' = tocsc(Xs)
    /\ at' = "density"
    /\ UNCHANGED <<arrays, X, y, density, sparse_lasso, dense_lasso>>
    /\ UNCHANGED beside_lasso

\* print("Matrix density : %s %%" % (Xs.nnz / float(X.size) * 100))
Density ==
    /\ at = "density"
    /\ density' = [num |-> nnz(Xs) * 100, den |-> ndarray_size(arrays[X])]
    /\ at' = "sparse_lasso.fit"
    /\ UNCHANGED <<arrays, X, y, Xs, sparse_lasso, dense_lasso>>
    /\ UNCHANGED beside_lasso

\* sparse_lasso.fit(Xs, y)
SparseFit ==
    /\ at = "sparse_lasso.fit"
    /\ sparse_lasso' = [fitted |-> TRUE, X |-> Xs, y |-> y]
    /\ at' = "dense_lasso.fit"
    /\ UNCHANGED <<arrays, X, y, Xs, density, dense_lasso>>
    /\ UNCHANGED beside_lasso

\* dense_lasso.fit(Xs.toarray(), y)
DenseFit ==
    /\ at = "dense_lasso.fit"
    /\ dense_lasso' = [fitted |-> TRUE, X |-> toarray(Xs), y |-> y]
    /\ at' = "done"
    /\ UNCHANGED <<arrays, X, y, Xs, density, sparse_lasso>>
    /\ UNCHANGED beside_lasso

NextLasso ==
    \/ Copy
    \/ SetItem
    \/ CooMatrix
    \/ ToCsc
    \/ Density
    \/ SparseFit
    \/ DenseFit

SpecLasso == InitLasso /\ [][NextLasso]_vars

----------------------------------------------------------------------------
(* The cached grid.fit of part_001, process by process (SpecJobs).         *)

\* A search that runs its fits on two workers.
n_jobs_Two == 1 + 1

\* GridSearchCV(cached_pipe, cv=3, n_jobs=1, param_grid=param_grid)
n_jobs == 1

\* The processes that run the fits of the loop; process 0 is the caller of
\* grid.fit, which runs the refit.
Workers == 1..n_jobs
Caller == 0

\* The fits of the cross-validation loop in the order they are dispatched:
\* every candidate on every fold.
Tasks ==
    [k \in 1..(Len(candidates) * cv) |->
        LET pipe == set_params(Pipeline, candidates[((k - 1) \div cv) + 1])
        IN [est |-> pipe.reduce_dim, data |-> ((k - 1) % cv) + 1]]

NoJob == [stage |-> "idle", key |-> <<>>]

InitJobs ==
    /\ IdleGrid
    /\ IdleRidge
    /\ IdleLasso
    /\ IdlePages
    /\ IdleNotebook
    /\ IdlePoints
    /\ dispatched = 0
    /\ busy = [p \in {Caller} \cup Workers |-> NoJob]
    /\ stored = {}
    /\ out = <<>>
    /\ refitted = FALSE

\* Process p enters the memoized function: it looks the arguments up and
\* writes "[Memory] Calling ..." when it has to compute, "Loading ..." when
\* the result is stored.
Enter(p, est, data) ==
    LET k == ArgsHash(est, data)
        hit == k \in stored
    IN /\ busy' = [busy EXCEPT ![p] =
                      [stage |-> IF hit THEN "loading" ELSE "calling",
                       key |-> k]]
       /\ out' = Append(out, [line |-> IF hit THEN "Loading" ELSE "Calling",
                              key |-> k, by |-> p])

\* An idle worker takes the next fit of the loop.
StartTask ==
    /\ dispatched < Len(Tasks)
    /\ \E w \in Workers :
           /\ busy[w].stage = "idle"
           /\ Enter(w, Tasks[dispatched + 1].est, Tasks[dispatched + 1].data)
    /\ dispatched' = dispatched + 1
    /\ UNCHANGED <<stored, refitted>>
    /\ UNCHANGED beside_jobs

\* A process leaves the memoized function: a computed result is stored and
\* "fit_transform_one - <time>" is written, a loaded one is reported by
\* "fit_transform_one cache loaded - <time>".
Leave ==
    /\ \E p \in DOMAIN busy :
           /\ busy[p].stage # "idle"
           /\ out' = Append(out, [line |-> IF busy[p].stage = "calling"
                                          THEN "fit_transform_one"
                                          ELSE "cache loaded",
                                  key |-> busy[p].key, by |-> p])
           /\ stored' = IF busy[p].stage = "calling"
                        THEN stored \cup {busy[p].key} ELSE stored
           /\ busy' = [busy EXCEPT ![p] = NoJob]
    /\ UNCHANGED <<dispatched, refitted>>
    /\ UNCHANGED beside_jobs

\* All fits of the loop have returned: the caller fits the best candidate,
\* whichever it is, on the whole data.
StartRefit ==
    /\ dispatched = Len(Tasks)
    /\ \A p \in DOMAIN busy : busy[p].stage = "idle"
    /\ ~refitted
    /\ \E c \in 1..Len(candidates) :
           Enter(Caller, set_params(Pipeline, candidates[c]).reduce_dim,
                 WholeData)
    /\ refitted' = TRUE
    /\ UNCHANGED <<dispatched, stored>>
    /\ UNCHANGED beside_jobs

NextJobs ==
    \/ StartTask
    \/ Leave
    \/ StartRefit

SpecJobs == InitJobs /\ [][NextJobs]_vars

----------------------------------------------------------------------------
(* The pages, line by line (SpecPages).  Texts are sequences of character  *)
(* codes; a decimal number is kept as the digits that are printed.         *)

\* "_sphx_glr_auto_examples_linear_model_plot_lasso_dense_vs_sparse_data.py"
LassoLabel ==
    <<95, 115, 112, 104, 120, 95, 103, 108, 114, 95, 97, 117, 116, 111, 95,
      101, 120, 97, 109, 112, 108, 101, 115, 95, 108, 105, 110, 101, 97,
      114, 95, 109, 111, 100, 101, 108, 95, 112, 108, 111, 116, 95, 108, 97,
      115, 115, 111, 95, 100, 101, 110, 115, 101, 95, 118, 115, 95, 115,
      112, 97, 114, 115, 101, 95, 100, 97, 116, 97, 46, 112, 121>>

\* "plot_lasso_dense_vs_sparse_data.py"
LassoScript ==
    <<112, 108, 111, 116, 95, 108, 97, 115, 115, 111, 95, 100, 101, 110,
      115, 101, 95, 118, 115, 95, 115, 112, 97, 114, 115, 101, 95, 100, 97,
      116, 97, 46, 112, 121>>

\* "plot_lasso_dense_vs_sparse_data.ipynb"
LassoNotebook ==
    <<112, 108, 111, 116, 95, 108, 97, 115, 115, 111, 95, 100, 101, 110,
      115, 101, 95, 118, 115, 95, 115, 112, 97, 114, 115, 101, 95, 100, 97,
      116, 97, 46, 105, 112, 121, 110, 98>>

\* "_sphx_glr_auto_examples_plot_compare_reduction.py"
CompareReductionLabel ==
    <<95, 115, 112, 104, 120, 95, 103, 108, 114, 95, 97, 117, 116, 111, 95,
      101, 120, 97, 109, 112, 108, 101, 115, 95, 112, 108, 111, 116, 95, 99,
      111, 109, 112, 97, 114, 101, 95, 114, 101, 100, 117, 99, 116, 105,
      111, 110, 46, 112, 121>>

\* "plot_compare_reduction.py"
CompareReductionScript ==
    <<112, 108, 111, 116, 95, 99, 111, 109, 112, 97, 114, 101, 95, 114, 101,
      100, 117, 99, 116, 105, 111, 110, 46, 112, 121>>

\* "plot_compare_reduction.ipynb"
CompareReductionNotebook ==
    <<112, 108, 111, 116, 95, 99, 111, 109, 112, 97, 114, 101, 95, 114, 101,
      100, 117, 99, 116, 105, 111, 110, 46, 105, 112, 121, 110, 98>>

\* "_example_linear_model_plot_ridge_path.py"
RidgePathLabel ==
    <<95, 101, 120, 97, 109, 112, 108, 101, 95, 108, 105, 110, 101, 97, 114,
      95, 109, 111, 100, 101, 108, 95, 112, 108, 111, 116, 95, 114, 105,
      100, 103, 101, 95, 112, 97, 116, 104, 46, 112, 121>>

\* "plot_ridge_path.py"
RidgePathScript ==
    <<112, 108, 111, 116, 95, 114, 105, 100, 103, 101, 95, 112, 97, 116,
      104, 46, 112, 121>>

\* The lines of a page that say something here; every other line is text
\* or a blank line inside the page.
LabelLine(text) == [kind |-> "label", text |-> text]
DownloadLine(target) == [kind |-> "download", target |-> target]
DoneInLine(whole, frac) ==
    [kind |-> "done in", seconds |-> [whole |-> whole, frac |-> frac]]
TotalLine(minutes, whole, frac) ==
    [kind |-> "total", minutes |-> minutes,
     seconds |-> [whole |-> whole, frac |-> frac]]
SignatureLine == [kind |-> "signature"]
BlankLine == [kind |-> "blank"]
OtherLine == [kind |-> "other"]

\* The Lasso page: 117 lines.
LassoLength == 117

\* A footer of the Lasso page without the link to the notebook.
LassoFooter_NoNotebook ==
    107 :> DownloadLine(LassoScript) @@ 117 :> SignatureLine

\* The footer of the Lasso page: the download links and the signature.
LassoFooter ==
    107 :> DownloadLine(LassoScript) @@ 113 :> DownloadLine(LassoNotebook)
        @@ 117 :> SignatureLine

LassoMarks ==
    3 :> LabelLine(LassoLabel)
      @@ 23 :> DoneInLine(<<0>>, <<1, 6, 6, 2, 0, 9>>)
      @@ 24 :> DoneInLine(<<0>>, <<0, 6, 0, 8, 7, 1>>)
      @@ 28 :> DoneInLine(<<0>>, <<2, 2, 6, 5, 7, 4>>)
      @@ 29 :> DoneInLine(<<1>>, <<0, 5, 6, 9, 6, 7>>)
      @@ 98 :> TotalLine(<<0>>, <<1>>, <<6, 3, 8>>)
      @@ LassoFooter

\* The page of part_001: 566 lines, the last one blank.
CompareReductionLength == 566

CompareReductionMarks ==
    2 :> LabelLine(CompareReductionLabel)
      @@ 546 :> TotalLine(<<1>>, <<2, 6>>, <<7, 5, 3>>)
      @@ 555 :> DownloadLine(CompareReductionScript)
      @@ 561 :> DownloadLine(CompareReductionNotebook)
      @@ 565 :> SignatureLine
      @@ 566 :> BlankLine

\* The page of part_000: 37 lines, the last one blank.  Line 35 gives the
\* total in seconds only, line 36 in minutes and seconds.
RidgePathLength == 37

RidgePathMarks ==
    2 :> LabelLine(RidgePathLabel)
      @@ 30 :> DownloadLine(RidgePathScript)
      @@ 35 :> TotalLine(<<>>, <<0>>, <<1, 3>>)
      @@ 36 :> TotalLine(<<0>>, <<0>>, <<1, 3>>)
      @@ 37 :> BlankLine

PageNames == {"Lasso", "CompareReduction", "RidgePath"}

Length(name) ==
    CASE name = "Lasso" -> LassoLength
      [] name = "CompareReduction" -> CompareReductionLength
      [] name = "RidgePath" -> RidgePathLength

Marks(name) ==
    CASE name = "Lasso" -> LassoMarks
      [] name = "CompareReduction" -> CompareReductionMarks
      [] name = "RidgePath" -> RidgePathMarks

\* Line i of a page.
Line(name, i) ==
    IF i \in DOMAIN Marks(name) THEN Marks(name)[i] ELSE OtherLine

\* The number a sequence of decimal digits denotes; no digits denote 0.
RECURSIVE DecValue(_)
DecValue(ds) ==
    IF ds = <<>> THEN 0
    ELSE DecValue(SubSeq(ds, 1, Len(ds) - 1)) * 10 + ds[Len(ds)]

RECURSIVE Pow10(_)
Pow10(n) == IF n = 0 THEN 1 ELSE 10 * Pow10(n - 1)

\* A conversion that reads the digits after the point as a count of
\* microseconds.
Micros_FracAsInteger(d) == DecValue(d.whole) * Pow10(6) + DecValue(d.frac)

\* The microseconds a printed number of seconds denotes: "%f" prints six
\* digits after the point, the totals fewer.
Micros(d) ==
    DecValue(d.whole) * Pow10(6) + DecValue(d.frac) * Pow10(6 - Len(d.frac))

\* The microseconds a printed total denotes: minutes and seconds.
TotalMicros(t) == DecValue(t.minutes) * 60 * Pow10(6) + Micros(t.seconds)

InitPages ==
    /\ IdleGrid
    /\ IdleRidge
    /\ IdleLasso
    /\ IdleJobs
    /\ IdleNotebook
    /\ IdlePoints
    /\ page \in PageNames
    /\ lineno = 0
    /\ label = <<>>
    /\ downloads = <<>>
    /\ durations = <<>>
    /\ totals = <<>>
    /\ last = "none"

\* The next line of the page is of this kind.
NextLineIs(kind) ==
    /\ lineno < Length(page)
    /\ Line(page, lineno + 1).kind = kind

\* .. _<label>:
ReadLabel ==
    /\ NextLineIs("label")
    /\ label' = Line(page, lineno + 1).text
    /\ lineno' = lineno + 1
    /\ last' = "label"
    /\ UNCHANGED <<page, downloads, durations, totals>>
    /\ UNCHANGED beside_pages

\* :download:`... <target>`
ReadDownload ==
    /\ NextLineIs("download")
    /\ downloads' = Append(downloads, Line(page, lineno + 1).target)
    /\ lineno' = lineno + 1
    /\ last' = "download"
    /\ UNCHANGED <<page, label, durations, totals>>
    /\ UNCHANGED beside_pages

\* ... Lasso done in <seconds>s
ReadDoneIn ==
    /\ NextLineIs("done in")
    /\ durations' = Append(durations, Micros(Line(page, lineno + 1).seconds))
    /\ lineno' = lineno + 1
    /\ last' = "done in"
    /\ UNCHANGED <<page, label, downloads, totals>>
    /\ UNCHANGED beside_pages

\* **Total running time of the ...:** ...
ReadTotal ==
    /\ NextLineIs("total")
    /\ totals' = Append(totals, TotalMicros(Line(page, lineno + 1)))
    /\ lineno' = lineno + 1
    /\ last' = "total"
    /\ UNCHANGED <<page, label, downloads, durations>>
    /\ UNCHANGED beside_pages

\* `Generated by Sphinx-Gallery <https://sphinx-gallery.readthedocs.io>`_
ReadSignature ==
    /\ NextLineIs("signature")
    /\ lineno' = lineno + 1
    /\ last' = "signature"
    /\ UNCHANGED <<page, label, downloads, durations, totals>>
    /\ UNCHANGED beside_pages

\* A blank line at the end of the page.
ReadBlank ==
    /\ NextLineIs("blank")
    /\ lineno' = lineno + 1
    /\ UNCHANGED <<page, label, downloads, durations, totals, last>>
    /\ UNCHANGED beside_pages

\* Any other line.
ReadOther ==
    /\ NextLineIs("other")
    /\ lineno' = lineno + 1
    /\ last' = "other"
    /\ UNCHANGED <<page, label, downloads, durations, totals>>
    /\ UNCHANGED beside_pages

NextPages ==
    \/ ReadLabel
    \/ ReadDownload
    \/ ReadDoneIn
    \/ ReadTotal
    \/ ReadSignature
    \/ ReadBlank
    \/ ReadOther

SpecPages == InitPages /\ [][NextPages]_vars

----------------------------------------------------------------------------
(* The notebooks (SpecNotebooks).  A cell of the notebooks of src is kept  *)
(* with its type, its execution_count and outputs, and the first line of   *)
(* its source that is not empty.                                           *)

\* "execution_count": null
null == "null"

\* A code cell that carries the result of a run.
NbCode_Executed(source) ==
    [cell_type |-> "code", execution_count |-> "1", outputs |-> <<"stdout">>,
     source |-> source]

\* A code cell and a markdown cell as the files hold them.
NbCode(source) ==
    [cell_type |-> "code", execution_count |-> null, outputs |-> <<>>,
     source |-> source]
NbMarkdown(source) == [cell_type |-> "markdown", source |-> source]

\* src/0.18/_downloads/plot_svm_regression.ipynb
SvmRegressionCells ==
    <<NbCode("%matplotlib inline"),
      NbMarkdown("Support Vector Regression (SVR) using linear and non-linear kernels"),
      NbCode("print(__doc__)"),
      NbMarkdown("Generate sample data"),
      NbCode("X = np.sort(5 * np.random.rand(40, 1), axis=0)"),
      NbMarkdown("Add noise to targets"),
      NbCode("y[::5] += 3 * (0.5 - np.random.rand(8))"),
      NbMarkdown("Fit regression model"),
      NbCode("svr_rbf = SVR(kernel='rbf', C=1e3, gamma=0.1)"),
      NbMarkdown("look at the results"),
      NbCode("lw = 2")>>

\* src/0.18/_downloads/plot_tree_regression_multioutput.ipynb
TreeRegressionCells ==
    <<NbCode("%matplotlib inline"),
      NbMarkdown("# Multi-output Decision Tree Regression"),
      NbCode("print(__doc__)")>>

\* src/unnamed/part_002
UnbalancedCells ==
    <<NbCode("%matplotlib inline"),
      NbMarkdown("SVM: Separating hyperplane for unbalanced classes"),
      NbCode("print(__doc__)")>>

NotebookNames == {"SvmRegression", "TreeRegression", "Unbalanced"}

CellsOf(name) ==
    CASE name = "SvmRegression" -> SvmRegressionCells
      [] name = "TreeRegression" -> TreeRegressionCells
      [] name = "Unbalanced" -> UnbalancedCells

\* The script a notebook of src mirrors, as far as the notebook shows it:
\* the docstring, then a block of text for every later markdown cell and a
\* block of code for every later code cell.
ScriptOf(nb) ==
    [k \in 1..(Len(nb) - 1) |->
        [kind |-> IF k = 1 THEN "docstring"
                  ELSE IF nb[k + 1].cell_type = "markdown" THEN "text"
                  ELSE "code",
         content |-> nb[k + 1].source]]

\* The scripts of at most MaxBlocks blocks after the docstring.
Contents == {"a", "b"}
Block == [kind : {"text", "code"}, content : Contents]
RECURSIVE BlockSeqs(_)
BlockSeqs(n) ==
    IF n = 0 THEN {<<>>}
    ELSE LET shorter == BlockSeqs(n - 1)
         IN shorter \cup {Append(b, x) : b \in shorter, x \in Block}
Scripts ==
    {<<[kind |-> "docstring", content |-> d]>> \o b :
        d \in Contents, b \in BlockSeqs(MaxBlocks)}

\* The cell written for a block of code: not executed.
code_cell(content) ==
    [cell_type |-> "code", execution_count |-> null, outputs |-> <<>>,
     source |-> content]

\* The cell written for the docstring or a block of text.
markdown_cell(content) == [cell_type |-> "markdown", source |-> content]

InitNotebooks ==
    /\ IdleGrid
    /\ IdleRidge
    /\ IdleLasso
    /\ IdleJobs
    /\ IdlePages
    /\ IdlePoints
    /\ \/ notebook = "none" /\ blocks \in Scripts
       \/ notebook \in NotebookNames /\ blocks = ScriptOf(CellsOf(notebook))
    /\ cells = <<>>
    /\ closed = FALSE

\* The notebook starts with the cell that sets up plotting.
WriteMagic ==
    /\ cells = <<>>
    /\ ~closed
    /\ cells' = <<code_cell("%matplotlib inline")>>
    /\ UNCHANGED <<notebook, blocks, closed>>
    /\ UNCHANGED beside_notebook

\* The next block of the script becomes the next cell.
WriteBlock ==
    /\ cells # <<>>
    /\ Len(cells) <= Len(blocks)
    /\ LET b == blocks[Len(cells)]
       IN cells' = Append(cells, IF b.kind = "code"
                                 THEN code_cell(b.content)
                                 ELSE markdown_cell(b.content))
    /\ UNCHANGED <<notebook, blocks, closed>>
    /\ UNCHANGED beside_notebook

\* Every block has been written.
CloseNotebook ==
    /\ Len(cells) = Len(blocks) + 1
    /\ ~closed
    /\ closed' = TRUE
    /\ UNCHANGED <<notebook, blocks, cells>>
    /\ UNCHANGED beside_notebook

NextNotebooks ==
    \/ WriteMagic
    \/ WriteBlock
    \/ CloseNotebook

SpecNotebooks == InitNotebooks /\ [][NextNotebooks]_vars

----------------------------------------------------------------------------
(* The data set of the script in the notebook of part_002 (SpecPoints).  A *)
(* row of X is kept as the cluster it is drawn for.                        *)

n_samples_1 == 1000
n_samples_2 == 100

InitPoints ==
    /\ IdleGrid
    /\ IdleRidge
    /\ IdleLasso
    /\ IdleJobs
    /\ IdlePages
    /\ IdleNotebook
    /\ where = "randn"
    /\ first = <<>>
    /\ second = <<>>
    /\ points = <<>>
    /\ labels = <<>>

\* 1.5 * rng.randn(n_samples_1, 2): one more row.
Randn1 ==
    /\ where = "randn"
    /\ Len(first) < n_samples_1
    /\ first' = Append(first, "around [0, 0]")
    /\ UNCHANGED <<where, second, points, labels>>
    /\ UNCHANGED beside_points

\* 0.5 * rng.randn(n_samples_2, 2) + [2, 2]: one more row.
Randn2 ==
    /\ where = "randn"
    /\ Len(first) = n_samples_1
    /\ Len(second) < n_samples_2
    /\ second' = Append(second, "around [2, 2]")
    /\ UNCHANGED <<where, first, points, labels>>
    /\ UNCHANGED beside_points

\* X = np.r_[..., ...]: the rows of the first array, then those of the second.
Concatenate ==
    /\ where = "randn"
    /\ Len(first) = n_samples_1
    /\ Len(second) = n_samples_2
    /\ points' = first \o second
    /\ where' = "y"
    /\ UNCHANGED <<first, second, labels>>
    /\ UNCHANGED beside_points

\* y = [0] * (n_samples_1) + [1] * (n_samples_2)
MakeLabels ==
    /\ where = "y"
    /\ labels' = [i \in 1..n_samples_1 |-> 0] \o [i \in 1..n_samples_2 |-> 1]
    /\ where' = "done"
    /\ UNCHANGED <<first, second, points>>
    /\ UNCHANGED beside_points

NextPoints ==
    \/ Randn1
    \/ Randn2
    \/ Concatenate
    \/ MakeLabels

SpecPoints == InitPoints /\ [][NextPoints]_vars

----------------------------------------------------------------------------
(* The captured output of the page, against which the model of the library *)
(* calls is validated.                                                     *)

\* The [Memory] entries of the captured output, in runs: what each entry is
\* and how many of them follow one another.
CapturedRuns ==
    << <<"call", 18>>, <<"load", 54>>, <<"call", 9>>, <<"load", 27>>,
       <<"call", 1>> >>

\* The transformers of the captured "[Memory] Calling" entries of the
\* cross-validation loop, each printed once per fold.
CapturedCalls ==
    << <<PCA_power7, 2>>, <<PCA_power7, 4>>, <<PCA_power7, 8>>,
       <<NMF_default, 2>>, <<NMF_default, 4>>, <<NMF_default, 8>>,
       <<SelectKBest_chi2, 2>>, <<SelectKBest_chi2, 4>>,
       <<SelectKBest_chi2, 8>> >>

RECURSIVE Expand(_)
Expand(runs) ==
    IF runs = <<>> THEN <<>>
    ELSE [i \in 1..Head(runs)[2] |-> Head(runs)[1]] \o Expand(Tail(runs))

\* A run of the model that reaches rmtree wrote the entries of the captured
\* output: the same calls and loads in the same order, and in the loop the
\* same transformers computed.
ModelReproducesCapture ==
    pc \in {"rmtree", "done"} =>
        /\ [i \in 1..Len(log) |-> log[i].event] = Expand(CapturedRuns)
        /\ LET calls == SelectSeq(log, LAMBDA e : e.event = "call" /\ ~e.refit)
           IN /\ Len(calls) = cv * Len(CapturedCalls)
              /\ \A i \in 1..Len(calls) :
                     <<calls[i].est.name, calls[i].est.size>>
                         = CapturedCalls[((i - 1) \div cv) + 1]

\* The lines of the captured output that begin and end an entry: a call is
\* "[Memory] Calling ..." and "fit_transform_one - <time>", a load is
\* "[Memory] ...: Loading ..." and "fit_transform_one cache loaded - <time>".
CapturedLines ==
    LET entries == Expand(CapturedRuns)
    IN [i \in 1..(2 * Len(entries)) |->
           LET e == entries[(i + 1) \div 2]
           IN IF i % 2 = 1
              THEN (IF e = "call" THEN "Calling" ELSE "Loading")
              ELSE (IF e = "call" THEN "fit_transform_one"
                    ELSE "cache loaded")]

----------------------------------------------------------------------------
(* Properties of the script of part_001 (Spec).                            *)

Last(seq) == seq[Len(seq)]

SameArgs(e1, e2) == e1.est = e2.est /\ e1.data = e2.data

\* The cross-validation loop of the cached grid search has finished.
CachedLoopDone ==
    \/ pc = "cached grid.fit" /\ ci > Len(candidates)
    \/ pc \in {"rmtree", "done"}

\* The entries the cross-validation loop wrote.
LoopEntries == {i \in 1..Len(log) : ~log[i].refit}

\* C1: while the cache directory exists, _fit_transform_one is executed at
\* most once for an argument tuple: an entry of the log whose arguments
\* were seen before is a load, never a second execution.  The log only
\* grows at its end, so stating it of the newest entry of every reachable
\* state states it of every entry.
C1_ExecutedAtMostOnce ==
    (cachedir = "exists" /\ log # <<>>) =>
        \A i \in 1..(Len(log) - 1) :
            SameArgs(log[i], Last(log)) => Last(log).event = "load"

\* A second call with the arguments of an earlier execution was answered
\* from the cache.
C1_Witness ==
    /\ cachedir = "exists"
    /\ Len(log) > 1
    /\ Last(log).event = "load"
    /\ \E i \in 1..(Len(log) - 1) :
           SameArgs(log[i], Last(log)) /\ log[i].event = "call"

\* The (reducer, number of components or k, fold) triples of the search.
Triples ==
    {<<set_params(Pipeline, candidates[c]).reduce_dim, f>> :
        c \in 1..Len(candidates), f \in 1..cv}

EntriesOf(t, event) ==
    {i \in LoopEntries :
        log[i].est = t[1] /\ log[i].data = t[2] /\ log[i].event = event}

\* C2: in the cross-validation loop of the cached search every (reducer,
\* n_components or k, fold) is computed exactly once, while the first value
\* of C_OPTIONS is evaluated, and loaded once for each other value of C:
\* 27 computations and 81 loads.
C2_ComputedAtFirstC ==
    /\ (log # <<>> /\ ~Last(log).refit) =>
           (Last(log).event = "call" <=> Last(log).C = C_OPTIONS[1])
    /\ CachedLoopDone =>
           /\ \A t \in Triples :
                  /\ Cardinality(EntriesOf(t, "call")) = 1
                  /\ {log[i].C : i \in EntriesOf(t, "load")}
                         = {C_OPTIONS[c] : c \in 2..Len(C_OPTIONS)}
                  /\ Cardinality(EntriesOf(t, "load")) = Len(C_OPTIONS) - 1
           /\ Cardinality({i \in LoopEntries : log[i].event = "call"}) = 27
           /\ Cardinality({i \in LoopEntries : log[i].event = "load"}) = 81

\* The loop of the cached search has finished, with loads in its log.
C2_Witness ==
    /\ pc = "cached grid.fit"
    /\ ci > Len(candidates)
    /\ \E i \in LoopEntries : log[i].event = "load"

\* C3: a cache hit hands the pipeline the value that executing
\* _fit_transform_one on the same arguments returns, and the cached search
\* ends with the candidates, the scores and the best candidate of the
\* uncached search.
C3_CachedSearchAgrees ==
    /\ (log # <<>> /\ Last(log).event = "load") =>
           Last(log).value = fit_transform_one(Last(log).est, Last(log).data)
    /\ pc \in {"rmtree", "done"} =>
           /\ grid.cv_results_ = first_grid.cv_results_
           /\ grid.best_params_ = first_grid.best_params_

\* Both searches have finished on a data set that tells candidates apart.
C3_Witness ==
    /\ pc = "rmtree"
    /\ grid.fitted /\ first_grid.fitted
    /\ good # {}
    /\ \E i \in 1..Len(log) : log[i].event = "load"
    /\ \E i \in 1..Len(grid.cv_results_) :
           grid.cv_results_[i].mean_test_score = 1

\* A step that stores into the cache or loads from it.
CacheOperation ==
    \/ Len(log') > Len(log)
    \/ \E k \in DOMAIN memory' : k \notin DOMAIN memory

\* C4: the cache directory is created before the Memory object and the
\* cached pipeline are constructed and is removed only after the cached
\* grid.fit has returned, and no store or load happens before it is created
\* or after it is removed.
C4_DirectoryBracketsCache ==
    /\ [](pc \in {"Memory", "cached grid.fit", "rmtree"}
              => cachedir = "exists")
    /\ [](cachedir = "removed" => (pc = "done" /\ grid.fitted))
    /\ [][CacheOperation => (cachedir = "exists" /\ cachedir' = "exists")]_vars

\* The directory has been removed after a search that stored and loaded.
C4_Witness ==
    /\ cachedir = "removed"
    /\ \E i \in 1..Len(log) : log[i].event = "call"
    /\ \E i \in 1..Len(log) : log[i].event = "load"

\* C5: the temporary cache directory is deleted before the script exits,
\* on every path of the caching section, the one on which grid.fit raises
\* included.
C5_DeletedOnEveryPath ==
    pc \in {"done", "raised"} => cachedir # "exists"

IndexOf(seq, v) == CHOOSE i \in 1..Len(seq) : seq[i] = v

\* Where the claimed order puts a candidate: the sub-grid first, then the
\* value of classify__C, then the reducer, then n_components or k.
ClaimedRank(cand) ==
    LET g == CHOOSE g \in 1..Len(param_grid) :
                 \E i \in 1..Len(param_grid[g]) :
                     /\ param_grid[g][i][1] = reduce_dim
                     /\ \E r \in 1..Len(param_grid[g][i][2]) :
                            param_grid[g][i][2][r] = Param(cand, reduce_dim)
        reducers == param_grid[g][IndexOf([i \in 1..Len(param_grid[g]) |->
                                              param_grid[g][i][1]],
                                          reduce_dim)][2]
        size == IF HasParam(cand, reduce_dim__k)
                THEN Param(cand, reduce_dim__k)
                ELSE Param(cand, reduce_dim__n_components)
    IN <<g, IndexOf(C_OPTIONS, Param(cand, classify__C)),
         IndexOf(reducers, Param(cand, reduce_dim)),
         IndexOf(N_FEATURES_OPTIONS, size)>>

RECURSIVE RankLess(_, _)
RankLess(a, b) ==
    IF a = <<>> \/ b = <<>> THEN FALSE
    ELSE IF Head(a) # Head(b) THEN Head(a) < Head(b)
    ELSE RankLess(Tail(a), Tail(b))

\* C6: the entries of cv_results_ are in the order of param_grid iteration:
\* sub-grid after sub-grid, and within a sub-grid classify__C outermost,
\* then reduce_dim, then reduce_dim__n_components or reduce_dim__k
\* innermost; a finished search holds every candidate.  The results only
\* grow at their end, so the order of the two newest entries of every
\* reachable state is the order of every two neighbours.
C6_ResultsInGridOrder ==
    /\ Len(grid.cv_results_) > 1 =>
           LET n == Len(grid.cv_results_)
           IN RankLess(ClaimedRank(grid.cv_results_[n - 1].params),
                       ClaimedRank(grid.cv_results_[n].params))
    /\ grid.fitted =>
           Len(grid.cv_results_)
               = Len(C_OPTIONS) * Len(reducer_labels) * Len(N_FEATURES_OPTIONS)

\* The first search has finished and line 75 is about to read its scores.
C6_Witness ==
    /\ pc = "plot"
    /\ grid.fitted
    /\ Len(grid.cv_results_) = Len(candidates)
    /\ Len(candidates) > 1

\* The reducer a label of reducer_labels stands for.
ReducerOf(reducer_label) ==
    CASE reducer_label = "PCA" -> PCA_power7
      [] reducer_label = "NMF" -> NMF_default
      [] reducer_label = "KBest(chi2)" -> SelectKBest_chi2

\* The mean test scores of the candidates with this reducer and this number
\* of features, one for each value of C.
ScoresOf(results, reducer, size) ==
    {results[i].mean_test_score : i \in
        {i \in 1..Len(results) :
            LET p == set_params(Pipeline, results[i].params)
            IN p.reduce_dim.name = reducer /\ p.reduce_dim.size = size}}

\* C7: after the reshape and max(axis=0), mean_scores[i][j] is the maximum
\* over C of the mean test score of reducer_labels[i] with
\* N_FEATURES_OPTIONS[j] features, so each bar shows its reducer's best
\* score over C.
C7_BarsShowBestOverC ==
    pc = "mkdtemp" =>
        /\ Len(bars) = Len(reducer_labels)
        /\ \A i \in 1..Len(bars) :
               \A j \in 1..Len(N_FEATURES_OPTIONS) :
                   bars[i].heights[j] =
                       Max(ScoresOf(grid.cv_results_,
                                    ReducerOf(bars[i].label),
                                    N_FEATURES_OPTIONS[j]))

\* The entries the refit wrote.
RefitEntries == {i \in 1..Len(log) : log[i].refit}

\* C16: after the cross-validation loop of the cached search, the refit of
\* the best pipeline on the whole data executes _fit_transform_one exactly
\* once more, as a computation and never as a load, because its data is the
\* data of no fold; it is the last cache operation and precedes the removal
\* of the cache directory.
C16_RefitIsLastComputation ==
    /\ \A i \in RefitEntries : i = Len(log) /\ pc \in {"rmtree", "done"}
    /\ pc = "rmtree" => cachedir = "exists"
    /\ pc \in {"rmtree", "done"} =>
           /\ Cardinality(RefitEntries) = 1
           /\ Last(log).refit
           /\ Last(log).event = "call"
           /\ \A i \in LoopEntries : log[i].data # Last(log).data
           /\ Cardinality(LoopEntries) = Len(candidates) * cv

\* The refit has run and rmtree is the next statement.
C16_Witness ==
    /\ pc = "rmtree"
    /\ cachedir = "exists"
    /\ log # <<>>
    /\ Last(log).refit

\* The hashes of the captured "Loading _fit_transform_one from ..." lines,
\* each named by its rank among the hashes in the order of first appearance.
CapturedLoads ==
    <<1, 2, 3, 4, 5, 6, 7, 8, 9, 10, 11, 12, 13, 14, 15, 16, 17, 18,
      1, 2, 3, 4, 5, 6, 7, 8, 9, 10, 11, 12, 13, 14, 15, 16, 17, 18,
      1, 2, 3, 4, 5, 6, 7, 8, 9, 10, 11, 12, 13, 14, 15, 16, 17, 18,
      19, 20, 21, 22, 23, 24, 25, 26, 27,
      19, 20, 21, 22, 23, 24, 25, 26, 27,
      19, 20, 21, 22, 23, 24, 25, 26, 27>>

LoopCalls == SelectSeq(log, LAMBDA e : e.event = "call" /\ ~e.refit)
LoopLoads == SelectSeq(log, LAMBDA e : e.event = "load" /\ ~e.refit)

\* C17: the keys loaded for each later value of C are the same sequence, in
\* the order in which the keys were first computed: the loads of the first
\* sub-grid are 3 repetitions of 18 distinct keys, those of the second are 3
\* repetitions of 9 distinct keys, no key belongs to both, and the hashes
\* of the captured log repeat in this very pattern.
C17_LoadsRepeatComputationOrder ==
    CachedLoopDone =>
        /\ Len(LoopCalls) = 27
        /\ \A i, j \in 1..Len(LoopCalls) :
               i # j => LoopCalls[i].key # LoopCalls[j].key
        /\ Len(LoopLoads) = 81
        /\ \A i \in 1..54 :
               LoopLoads[i].key = LoopCalls[((i - 1) % 18) + 1].key
        /\ \A i \in 55..81 :
               LoopLoads[i].key = LoopCalls[18 + ((i - 55) % 9) + 1].key
        /\ Len(CapturedLoads) = Len(LoopLoads)
        /\ \A i \in 1..Len(LoopLoads) :
               LoopLoads[i].key = LoopCalls[CapturedLoads[i]].key

\* The loop of the cached search has finished after loads of both sub-grids.
C17_Witness ==
    /\ pc = "cached grid.fit"
    /\ ci > Len(candidates)
    /\ \E i \in LoopEntries :
           log[i].event = "load" /\ log[i].est.name = SelectKBest_chi2
    /\ \E i \in LoopEntries :
           log[i].event = "load" /\ log[i].est.name = PCA_power7

\* A reducer listed in param_grid, with n_components or k taken from
\* N_FEATURES_OPTIONS.
Listed(est) ==
    /\ est.name \in {PCA_power7, NMF_default, SelectKBest_chi2}
    /\ \E n \in 1..Len(N_FEATURES_OPTIONS) : est.size = N_FEATURES_OPTIONS[n]

\* C18: every transformer fitted during the grid search is a reducer
\* listed in param_grid with n_components or k from N_FEATURES_OPTIONS; the
\* placeholder PCA() of the pipeline is never fitted.  The log and the
\* results only grow at their end, so the newest entries stand for all.
C18_OnlyListedReducersFitted ==
    /\ log # <<>> =>
           Listed(Last(log).est) /\ Last(log).est.name # PCA_default
    /\ grid.cv_results_ # <<>> =>
           Listed(set_params(Pipeline, Last(grid.cv_results_).params).reduce_dim)
    /\ grid.fitted =>
           Listed(set_params(Pipeline, grid.best_params_).reduce_dim)

\* Both searches have fitted their transformers, the refits included.
C18_Witness ==
    /\ pc = "done"
    /\ grid.fitted /\ first_grid.fitted
    /\ \E i \in 1..Len(log) : log[i].refit

\* C19: param_grid produces 36 candidates, a multiple of
\* len(C_OPTIONS) * len(N_FEATURES_OPTIONS) = 12, so the reshape succeeds,
\* and the inferred middle dimension is len(reducer_labels) = 3, so the zip
\* of the labels with the rows drops no row and no label.
C19_ReshapeFitsLabels ==
    /\ Len(candidates) = 36
    /\ Len(C_OPTIONS) * Len(N_FEATURES_OPTIONS) = 12
    /\ pc = "plot" =>
           /\ Len(grid.cv_results_) = Len(candidates)
           /\ Len(grid.cv_results_)
                  % (Len(C_OPTIONS) * Len(N_FEATURES_OPTIONS)) = 0
    /\ ~(pc = "raised" /\ grid.fitted /\ mean_scores = <<>>)
    /\ pc = "mkdtemp" =>
           /\ Len(mean_scores) = 3
           /\ Len(mean_scores) = Len(reducer_labels)
           /\ Len(bars) = Len(mean_scores)
           /\ Len(bars) = Len(reducer_labels)
           /\ \A i \in 1..Len(bars) :
                  Len(bars[i].heights) = Len(N_FEATURES_OPTIONS)

\* The reshape, the max and the zip have run.
C19_Witness ==
    /\ pc = "mkdtemp"
    /\ mean_scores # <<>>
    /\ bars # <<>>

----------------------------------------------------------------------------
(* Properties of the ridge-path page (SpecRidge).                          *)

\* How often the finished page shows line r of the script.
TimesShown(r) ==
    Cardinality({i \in 1..Len(narrative) : narrative[i] = r})
        + Cardinality({i \in 1..Len(listing) : listing[i] = r})

----------------------------------------------------------------------------
(* Properties of the sparse section of the Lasso script (SpecLasso).       *)

\* The entry (i, j) of Xs, whatever Xs is at the moment.
Entry(M, i, j) ==
    IF M.format = "ndarray" THEN arrays[M.ref][i][j]
    ELSE IF M.format = "coo"
    THEN LET ks == {k \in 1..Len(M.data) :
                       M.row[k] = i - 1 /\ M.col[k] = j - 1}
         IN IF ks = {} THEN 0 ELSE M.data[CHOOSE k \in ks : TRUE]
    ELSE LET ks == {k \in (M.indptr[j] + 1)..M.indptr[j + 1] :
                       M.indices[k] = i - 1}
         IN IF ks = {} THEN 0 ELSE M.data[CHOOSE k \in ks : TRUE]

\* Xs[Xs < 2.5] = 0.0 has run.
Thresholded ==
    at \in {"coo_matrix", "tocsc", "density", "sparse_lasso.fit",
            "dense_lasso.fit", "done"}

\* C20: after Xs = X.copy(); Xs[Xs < 2.5] = 0.0 every entry of Xs is 0 or
\* at least 2.5 and equals the entry of X wherever it is not 0, X itself is
\* never changed, nnz is at most X.size so that the density lies between 0
\* and 100 per cent, and the sparse and the dense estimator are fitted on
\* matrices with the same entries (Xs and Xs.toarray()) and on the same y.
C20_SparseSectionKeepsX ==
    /\ [](Thresholded =>
            \A i \in 1..Len(arrays[X]) : \A j \in 1..Len(arrays[X][i]) :
                /\ Entry(Xs, i, j) = 0 \/ Entry(Xs, i, j) >= Threshold
                /\ Entry(Xs, i, j) # 0 => Entry(Xs, i, j) = arrays[X][i][j])
    /\ [][arrays'[X'] = arrays[X]]_vars
    /\ [](at \in {"sparse_lasso.fit", "dense_lasso.fit", "done"} =>
            /\ nnz(Xs) <= ndarray_size(arrays[X])
            /\ density.num = nnz(Xs) * 100
            /\ density.den = ndarray_size(arrays[X])
            /\ 0 <= density.num
            /\ density.num <= 100 * density.den)
    /\ [](at = "done" =>
            /\ sparse_lasso.X = Xs
            /\ sparse_lasso.y = y
            /\ dense_lasso.y = sparse_lasso.y
            /\ ndarray_shape(dense_lasso.X) = sparse_lasso.X.shape
            /\ \A i \in 1..Len(dense_lasso.X) :
                   \A j \in 1..Len(dense_lasso.X[i]) :
                       dense_lasso.X[i][j] = Entry(sparse_lasso.X, i, j))

\* Both estimators are fitted on a matrix in which an entry was set to 0
\* and an entry was kept.
C20_Witness ==
    /\ at = "done"
    /\ dense_lasso.fitted
    /\ \E i \in 1..Len(arrays[X]) : \E j \in 1..Len(arrays[X][i]) :
           arrays[X][i][j] # 0 /\ dense_lasso.X[i][j] = 0
    /\ \E i \in 1..Len(arrays[X]) : \E j \in 1..Len(arrays[X][i]) :
           dense_lasso.X[i][j] >= Threshold

----------------------------------------------------------------------------
(* Properties of the cached grid.fit run by its workers (SpecJobs).        *)

\* The processes inside the memoized function.
Running == {p \in DOMAIN busy : busy[p].stage # "idle"}

\* C15: with n_jobs=1 the cached grid search performs its cache operations
\* strictly one after another: every "[Memory] Calling" line is followed by
\* the "fit_transform_one - <time>" line of the same call before the next
\* call or load begins, so no arguments are ever computed by two calls at
\* the same time; the lines come in the order of the captured output.
C15_OneCacheOperationAtATime ==
    /\ Cardinality(Running) <= 1
    /\ \A p, q \in Running : busy[p].key = busy[q].key => p = q
    /\ \A i \in 1..Len(out) :
           /\ out[i].line = "Calling" =>
                  IF i = Len(out)
                  THEN busy[out[i].by] = [stage |-> "calling",
                                          key |-> out[i].key]
                  ELSE /\ out[i + 1].line = "fit_transform_one"
                       /\ out[i + 1].key = out[i].key
                       /\ out[i + 1].by = out[i].by
           /\ out[i].line = "Loading" =>
                  IF i = Len(out)
                  THEN busy[out[i].by] = [stage |-> "loading",
                                          key |-> out[i].key]
                  ELSE /\ out[i + 1].line = "cache loaded"
                       /\ out[i + 1].key = out[i].key
                       /\ out[i + 1].by = out[i].by
           /\ i <= Len(CapturedLines)
           /\ out[i].line = CapturedLines[i]

\* The loop and the refit have run: calls and loads were made and the last
\* call has returned.
C15_Witness ==
    /\ n_jobs = 1
    /\ dispatched = Len(Tasks)
    /\ refitted
    /\ Running = {}
    /\ Len(out) = Len(CapturedLines)
    /\ \E i \in 1..Len(out) : out[i].line = "Loading"

----------------------------------------------------------------------------
(* Properties of the pages (SpecPages).                                    *)

\* The page has been read to its end.
PageRead == page \in PageNames /\ lineno = Length(page)

RECURSIVE Sum(_)
Sum(xs) == IF xs = <<>> THEN 0 ELSE Head(xs) + Sum(Tail(xs))

\* C11: on the Lasso page the reported total of 1.638 s is at least the
\* sum of the four printed fit durations, 0.166209 + 0.060871 + 0.226574 +
\* 1.056967 = 1.510621 s; on the ridge page the two renderings of the total,
\* "0.13 seconds" and "0 minutes 0.13 seconds", denote the same duration.
C11_TotalCoversPrintedDurations ==
    /\ (PageRead /\ page = "Lasso") =>
           /\ Len(durations) = 4
           /\ Sum(durations) = 1510621
           /\ totals = <<1638000>>
           /\ Sum(durations) <= totals[1]
    /\ (PageRead /\ page = "RidgePath") =>
           /\ Len(totals) = 2
           /\ totals[1] = totals[2]
           /\ totals[1] = 130000
    /\ (page \in PageNames /\ totals # <<>>) =>
           Sum(durations) <= totals[1]

\* The Lasso page has been read with its four durations and its total.
C11_Witness ==
    /\ page = "Lasso"
    /\ lineno = Length(page)
    /\ Len(durations) = 4
    /\ Len(totals) = 1

\* "_sphx_glr_"
GalleryPrefix ==
    <<95, 115, 112, 104, 120, 95, 103, 108, 114, 95>>

\* "_"
UnderscoreText ==
    <<95>>

\* ".py"
PyExt ==
    <<46, 112, 121>>

\* ".ipynb"
IpynbExt ==
    <<46, 105, 112, 121, 110, 98>>

StartsWith(text, prefix) ==
    /\ Len(prefix) <= Len(text)
    /\ SubSeq(text, 1, Len(prefix)) = prefix

EndsWith(text, suffix) ==
    /\ Len(suffix) <= Len(text)
    /\ SubSeq(text, Len(text) - Len(suffix) + 1, Len(text)) = suffix

\* The names <name> for which the label reads _sphx_glr_..._<name>.py.
NamesOf(text) ==
    {SubSeq(text, i + 1, Len(text) - Len(PyExt)) :
        i \in {i \in (Len(GalleryPrefix) + 1)..(Len(text) - Len(PyExt) - 1) :
                  text[i] = UnderscoreText[1]}}

\* The number of download links to a target.
LinksTo(target) ==
    Cardinality({i \in 1..Len(downloads) : downloads[i] = target})

\* C12: every Sphinx-Gallery page, that is every page whose label has the
\* form _sphx_glr_..._<name>.py, carries exactly one download link to
\* <name>.py and exactly one to <name>.ipynb, and ends with the "Generated
\* by Sphinx-Gallery" signature.
C12_GalleryPageFooter ==
    (PageRead /\ StartsWith(label, GalleryPrefix) /\ EndsWith(label, PyExt)) =>
        /\ \E name \in NamesOf(label) :
               /\ LinksTo(name \o PyExt) = 1
               /\ LinksTo(name \o IpynbExt) = 1
        /\ last = "signature"

\* A Sphinx-Gallery page has been read to its end.
C12_Witness ==
    /\ page = "CompareReduction"
    /\ lineno = Length(page)
    /\ StartsWith(label, GalleryPrefix)
    /\ Len(downloads) = 2

----------------------------------------------------------------------------
(* Properties of the notebooks (SpecNotebooks).                            *)

----------------------------------------------------------------------------
(* Properties of the data set of part_002 (SpecPoints).                    *)

\* C14: the data set of the unbalanced-classes example consists of 40
\* points, as the comment "# we create 40 separable points" states: X has
\* 40 rows and y has 40 labels.
C14_FortyPoints ==
    where = "done" => Len(points) = 40 /\ Len(labels) = 40

====
